---------------------------- MODULE Spec2Model ----------------------------
(***************************************************************************)
(* A model of intelx-mcp: the identifier registry and the record           *)
(* normalizers of lib/postprocess.ts, the polling loops of IntelXClient    *)
(* and IdentityClient, the rate gate both clients carry, and the tool and  *)
(* resource handlers of index.ts.                                          *)
(*                                                                         *)
(* The module holds these specifications over one set of variables:        *)
(*   SpecRegistry  the registry under normalize / denormalize / lookups    *)
(*   SpecPoll      one search session of any of the four families, or one  *)
(*                 single-call method of IntelXClient                      *)
(*   SpecPollLive  the same, under fairness and with loops that go on      *)
(*                 past the rounds whose history is kept                   *)
(*   SpecGate      concurrent callers of one client's rateLimit()          *)
(*   SpecIdentity  normalizeIdentityRecords on lists of identity records   *)
(*   SpecIdentityOrder  the same, on records with numbered storage ids     *)
(*   SpecHandlers  concurrent tool and resource handlers on one registry   *)
(* Each specification moves its own variables and leaves the others at     *)
(* their initial values.                                                   *)
(***************************************************************************)
EXTENDS Integers, Sequences, FiniteSets, TLC

VARIABLES
    \* ---- registry (lib/postprocess.ts, module-level state) ----
    uuidToIdMaps,   \* field -> (raw string -> integer)
    idToUuidMaps,   \* field -> (integer -> raw string)
    counters,       \* field -> next integer to hand out
    regOp,          \* the last registry operation: its name, input and result
    \* ---- one search session (IntelXClient / IdentityClient loops) ----
    family,         \* which loop runs: "search", "phonebook", "identity", "export"
    pc,             \* position of the session in its loop
    initialBudget,  \* the value maxresults / remaining starts from
    maxresults,     \* the loop's local budget (`maxresults`, `remaining`)
    allRecords,     \* the accumulated result, one entry per push of a batch
    results,        \* the outcome of the last poll call
    rounds,         \* every poll outcome of the session, in order
    calls,          \* upstream calls of the session, in order
    submitted,      \* the upstream's answer to the submit call
    terminated,     \* how the terminate call ended, "none" before it
    error,          \* the error the session threw, "none" while it has not
    \* ---- rate gate (rateLimit of one client, concurrent callers) ----
    now,            \* Date.now(), in ticks
    lastRequestTime,\* the client's lastRequestTime field
    gate,           \* caller -> its position in rateLimit and its wake-up time
    passes,         \* the gate passes so far: <<caller, time>>, in order
    \* ---- tool and resource handlers (index.ts), concurrent requests ----
    requests        \* request -> the handler it runs, where it is, what it holds

regVars  == <<uuidToIdMaps, idToUuidMaps, counters, regOp>>
pollVars == <<family, pc, initialBudget, maxresults, allRecords, results, rounds, calls,
             submitted, terminated, error>>
gateVars == <<now, lastRequestTime, gate, passes>>
handlerVars == <<requests>>
vars     == <<regVars, pollVars, gateVars, handlerVars>>

-----------------------------------------------------------------------------
(***************************************************************************)
(* JSON values.  A value carries its JavaScript type so that `typeof`,     *)
(* Array.isArray and `=== null` can be decided as the code decides them.   *)
(* An object is the sequence of its entries in Object.entries order.       *)
(***************************************************************************)
Str(s) == [t |-> "string", s |-> s]
Num(n) == [t |-> "number", n |-> n]
Null == [t |-> "null"]
Undefined == [t |-> "undefined"]
Arr(a) == [t |-> "array", a |-> a]
Obj(e) == [t |-> "object", e |-> e]
Entry(k, v) == [k |-> k, v |-> v]

\* typeof obj === "object" && obj !== null && !Array.isArray(obj)
IsPlainObject(obj) == obj.t = "object"
IsArray(obj) == obj.t = "array"
IsString(obj) == obj.t = "string"
IsNumber(obj) == obj.t = "number"

-----------------------------------------------------------------------------
(***************************************************************************)
(* The registry.                                                           *)
(***************************************************************************)
TRANSITION_FIELDS ==
    {"system_id", "storage_id", "owner", "indexfile", "group", "randomid", "target"}

\* Map.set(k, v): adds the key or overwrites its value.
MapSet(m, k, v) == [x \in (DOMAIN m) \cup {k} |-> IF x = k THEN v ELSE m[x]]
MapHas(m, k) == k \in DOMAIN m
EmptyMap == [x \in {} |-> 0]

\* The registry as one value, for the pure functions below.
Registry(fwd, rev, ctr) == [fwd |-> fwd, rev |-> rev, ctr |-> ctr]
CurrentRegistry == Registry(uuidToIdMaps, idToUuidMaps, counters)

\* Mutant of InitialRegistry: the counters start at 0.
InitialRegistryFromZero ==
    Registry([f \in TRANSITION_FIELDS |-> EmptyMap],
             [f \in TRANSITION_FIELDS |-> EmptyMap],
             [f \in TRANSITION_FIELDS |-> 0])

\* The module-level initialisation loop: empty maps, counters at 1.
InitialRegistry ==
    Registry([f \in TRANSITION_FIELDS |-> EmptyMap],
             [f \in TRANSITION_FIELDS |-> EmptyMap],
             [f \in TRANSITION_FIELDS |-> 1])


\* Mutants of AllocateId: the counter is read but not advanced; the reverse
\* table is not written.
AllocateIdNoIncrement(reg, field, value) ==
    LET newId == reg.ctr[field]
    IN  Registry([reg.fwd EXCEPT ![field] = MapSet(reg.fwd[field], value, newId)],
                 [reg.rev EXCEPT ![field] = MapSet(reg.rev[field], newId, value)],
                 reg.ctr)

AllocateIdNoReverse(reg, field, value) ==
    LET newId == reg.ctr[field]
    IN  Registry([reg.fwd EXCEPT ![field] = MapSet(reg.fwd[field], value, newId)],
                 reg.rev,
                 [reg.ctr EXCEPT ![field] = newId + 1])

\* Mutant of AllocateId: one counter for all the fields.
AllocateIdSharedCounter(reg, field, value) ==
    LET newId == reg.ctr[field]
    IN  Registry([reg.fwd EXCEPT ![field] = MapSet(reg.fwd[field], value, newId)],
                 [reg.rev EXCEPT ![field] = MapSet(reg.rev[field], newId, value)],
                 [f \in TRANSITION_FIELDS |-> newId + 1])

\* normalizeIntelxId, the body of `if (!map.has(value))`: take the field's
\* counter as the new id, advance the counter, write both tables.
AllocateId(reg, field, value) ==
    LET newId == reg.ctr[field]
    IN  Registry([reg.fwd EXCEPT ![field] = MapSet(reg.fwd[field], value, newId)],
                 [reg.rev EXCEPT ![field] = MapSet(reg.rev[field], newId, value)],
                 [reg.ctr EXCEPT ![field] = newId + 1])

\* Mutant of AssignId: the `has` test is dropped, every occurrence allocates.
AssignIdAlways(reg, field, value) ==
    LET after == AllocateId(reg, field, value)
    IN  [id |-> after.fwd[field][value], reg |-> after]

\* Mutant of AssignId: the id is taken from the counter without a look at the
\* forward table, which is written afterwards.
AssignIdFromCounter(reg, field, value) ==
    [id |-> reg.ctr[field], reg |-> AllocateId(reg, field, value)]

\* normalizeIntelxId, the branch taken for a pseudonymizable key holding a
\* string: allocate when the string is new, then read the id from the map.
\* Returns the id (copy[key] = map.get(value)) and the registry afterwards.
AssignId(reg, field, value) ==
    LET after == IF ~MapHas(reg.fwd[field], value)
                 THEN AllocateId(reg, field, value)
                 ELSE reg
    IN  [id |-> after.fwd[field][value], reg |-> after]

\* Mutant of IdValue: the identifier is written as a decimal string.
IdValueAsString(id) == Str(ToString(id))

\* What copy[key] receives: map.get(value), a number.
IdValue(id) == Num(id)

\* The test that selects that branch.
IsTransitionString(key, value) ==
    key \in TRANSITION_FIELDS /\ IsString(value)

\* Mutant of CopySet: the result is written into the object walked as well.
CopySetInPlace(entry, result, after) ==
    [copy |-> Entry(entry.k, result), obj |-> Entry(entry.k, result)]

\* copy[key] = <result>: the entry the copy gets, and the entry of the object
\* walked, whose value is what the walk below it left (`after`).
CopySet(entry, result, after) ==
    [copy |-> Entry(entry.k, result), obj |-> Entry(entry.k, after)]

RECURSIVE normalizeDeepScan(_, _)
RECURSIVE normalizeArray(_, _)
RECURSIVE normalizeEntries(_, _)

\* deepScan of normalizeIntelxId.  The registry is module state in the code;
\* here it is threaded through the walk in the order the code visits values.
normalizeDeepScan(obj, reg) ==
    IF IsArray(obj)
    THEN LET r == normalizeArray(obj.a, reg) IN [out |-> Arr(r.out), reg |-> r.reg]
    ELSE IF IsPlainObject(obj)
    THEN LET r == normalizeEntries(obj.e, reg) IN [out |-> Obj(r.out), reg |-> r.reg]
    ELSE [out |-> obj, reg |-> reg]

\* obj.map(deepScan)
normalizeArray(seq, reg) ==
    IF seq = <<>>
    THEN [out |-> <<>>, reg |-> reg]
    ELSE LET h == normalizeDeepScan(Head(seq), reg)
             t == normalizeArray(Tail(seq), h.reg)
         IN  [out |-> <<h.out>> \o t.out, reg |-> t.reg]

\* for (const [key, value] of Object.entries(obj)) { ... }
normalizeEntries(seq, reg) ==
    IF seq = <<>>
    THEN [out |-> <<>>, reg |-> reg]
    ELSE LET key == Head(seq).k
             value == Head(seq).v
             h == IF IsTransitionString(key, value)
                  THEN LET a == AssignId(reg, key, value.s)
                       IN  [out |-> IdValue(a.id), reg |-> a.reg]
                  ELSE normalizeDeepScan(value, reg)
             t == normalizeEntries(Tail(seq), h.reg)
         IN  [out |-> <<CopySet(Head(seq), h.out, value).copy>> \o t.out, reg |-> t.reg]

\* The value normalizeIntelxId walked, as the walk that returned `out` left
\* it: the entries of its objects as the assignments of the loop left them.
RECURSIVE Walked(_, _)
Walked(obj, out) ==
    IF IsArray(obj)
    THEN Arr([i \in DOMAIN obj.a |-> Walked(obj.a[i], out.a[i])])
    ELSE IF IsPlainObject(obj)
    THEN Obj([i \in DOMAIN obj.e |->
                CopySet(obj.e[i], out.e[i].v, Walked(obj.e[i].v, out.e[i].v)).obj])
    ELSE obj

normalizeIntelxId(tree, reg) == normalizeDeepScan(tree, reg)

\* The assignments one normalizeIntelxId call made or reused: the triples
\* <<field, raw string, value returned in its place>> found by walking the
\* input and the result side by side.
RECURSIVE Assigned(_, _)
Assigned(inp, out) ==
    IF IsArray(inp)
    THEN UNION {Assigned(inp.a[i], out.a[i]) : i \in DOMAIN inp.a}
    ELSE IF IsPlainObject(inp)
    THEN UNION {IF IsTransitionString(inp.e[i].k, inp.e[i].v)
                THEN {<<inp.e[i].k, inp.e[i].v.s, out.e[i].v>>}
                ELSE Assigned(inp.e[i].v, out.e[i].v) : i \in DOMAIN inp.e}
    ELSE {}

\* idToUuidMaps.get(field)?.get(id): the raw string, or undefined.  The field
\* argument is any string: a name outside TRANSITION_FIELDS has no map.
getOriginalUuid(reg, field, id) ==
    IF field \in TRANSITION_FIELDS /\ MapHas(reg.rev[field], id)
    THEN Str(reg.rev[field][id])
    ELSE Undefined

\* uuidToIdMaps.get(field)?.get(uuid): the integer, or undefined.
getNormalizedId(reg, field, uuid) ==
    IF field \in TRANSITION_FIELDS /\ MapHas(reg.fwd[field], uuid)
    THEN Num(reg.fwd[field][uuid])
    ELSE Undefined

\* Mutant of DenormalizeValue: the reverse table is not consulted.
DenormalizeValueKeep(reg, key, value) == value

\* Mutant of DenormalizeValue: without the `?? value` fallback.
DenormalizeValueNoFallback(reg, key, value) ==
    getOriginalUuid(reg, key, value.n)

\* denormalizeIntelxId, the branch for a pseudonymizable key holding a number:
\* copy[key] = original ?? value.
DenormalizeValue(reg, key, value) ==
    LET original == getOriginalUuid(reg, key, value.n)
    IN  IF original = Undefined THEN value ELSE original

IsTransitionNumber(key, value) ==
    key \in TRANSITION_FIELDS /\ IsNumber(value)

RECURSIVE denormalizeDeepScan(_, _)
RECURSIVE denormalizeEntries(_, _)

\* deepScan of denormalizeIntelxId; it reads the registry and never writes it.
denormalizeDeepScan(obj, reg) ==
    IF IsArray(obj)
    THEN Arr([i \in DOMAIN obj.a |-> denormalizeDeepScan(obj.a[i], reg)])
    ELSE IF IsPlainObject(obj)
    THEN Obj(denormalizeEntries(obj.e, reg))
    ELSE obj

denormalizeEntries(seq, reg) ==
    IF seq = <<>>
    THEN <<>>
    ELSE LET key == Head(seq).k
             value == Head(seq).v
             h == IF IsTransitionNumber(key, value)
                  THEN DenormalizeValue(reg, key, value)
                  ELSE denormalizeDeepScan(value, reg)
         IN  <<Entry(key, h)>> \o denormalizeEntries(Tail(seq), reg)

denormalizeIntelxId(tree, reg) == denormalizeDeepScan(tree, reg)

-----------------------------------------------------------------------------
(***************************************************************************)
(* The record normalizers of lib/postprocess.ts.                           *)
(***************************************************************************)

\* obj[key] / obj.key on a plain object: the value, or undefined.
Get(obj, key) ==
    IF \E i \in DOMAIN obj.e : obj.e[i].k = key
    THEN obj.e[CHOOSE i \in DOMAIN obj.e : obj.e[i].k = key].v
    ELSE Undefined

\* { ...obj, key: value } for a key obj already has: the key keeps its place.
SetField(obj, key, value) ==
    Obj([i \in DOMAIN obj.e |-> IF obj.e[i].k = key THEN Entry(key, value) ELSE obj.e[i]])

\* normalizeIdentityRecords, the first map callback: one IdentityRecord
\* flattened.
IdentityFlat(record) ==
    LET item == Get(record, "item")
    IN  Obj(<<Entry("line", Get(record, "linea")),
              Entry("system_id", Get(item, "systemid")),
              Entry("storage_id", Get(item, "storageid")),
              Entry("bucket", Get(item, "bucket")),
              Entry("filename", Get(item, "name")),
              Entry("date", Get(item, "date"))>>)

\* Mutant of MergeInto: the first record of a storage id is stored with its
\* own line instead of an empty one.
MergeIntoKeepLine(merged, record) ==
    LET key == Get(record, "storage_id").s
        withKey == IF \E i \in DOMAIN merged : merged[i].k = key
                   THEN merged
                   ELSE Append(merged, Entry(key, record))
        at == CHOOSE i \in DOMAIN withKey : withKey[i].k = key
        line == Get(withKey[at].v, "line").s \o "\n" \o Get(record, "line").s
    IN  [withKey EXCEPT ![at] = Entry(key, SetField(withKey[at].v, "line", Str(line)))]

\* normalizeIdentityRecords, the forEach callback: mergedByStorageId is the
\* sequence of its entries in insertion order.  A storage id met for the
\* first time gets the record with an empty line; the record's line is then
\* appended after a newline.
MergeInto(merged, record) ==
    LET key == Get(record, "storage_id").s
        withKey == IF \E i \in DOMAIN merged : merged[i].k = key
                   THEN merged
                   ELSE Append(merged, Entry(key, SetField(record, "line", Str(""))))
        at == CHOOSE i \in DOMAIN withKey : withKey[i].k = key
        line == Get(withKey[at].v, "line").s \o "\n" \o Get(record, "line").s
    IN  [withKey EXCEPT ![at] = Entry(key, SetField(withKey[at].v, "line", Str(line)))]

RECURSIVE MergeAll(_, _)
MergeAll(records, merged) ==
    IF records = <<>>
    THEN merged
    ELSE MergeAll(Tail(records), MergeInto(merged, Head(records)))

\* The number a property key stands for when it is an array index (the
\* canonical decimal string of an integer below 2^32 - 1), else -1.  Of the
\* keys the model feeds, "2" and "10" are array indices.
ArrayIndex(key) ==
    CASE key = "2" -> 2
      [] key = "10" -> 10
      [] OTHER -> -1

\* The positions S of `entries` in ascending order of their array index.
RECURSIVE AscendingIndex(_, _)
AscendingIndex(entries, S) ==
    IF S = {}
    THEN <<>>
    ELSE LET m == CHOOSE i \in S :
                    \A j \in S : ArrayIndex(entries[i].k) <= ArrayIndex(entries[j].k)
         IN  <<m>> \o AscendingIndex(entries, S \ {m})

\* The positions S of `entries` in ascending order.
RECURSIVE InsertionOrder(_)
InsertionOrder(S) ==
    IF S = {}
    THEN <<>>
    ELSE LET m == CHOOSE i \in S : \A j \in S : i <= j
         IN  <<m>> \o InsertionOrder(S \ {m})

\* Object.values(obj) for an object whose entries were created in the order
\* of `entries`: the values of the array-index keys first, in ascending
\* numeric order, then those of the other keys in creation order.
ObjectValues(entries) ==
    LET indexed == {i \in DOMAIN entries : ArrayIndex(entries[i].k) >= 0}
        order == AscendingIndex(entries, indexed)
                   \o InsertionOrder((DOMAIN entries) \ indexed)
    IN  [i \in DOMAIN order |-> entries[order[i]].v]

\* normalizeIdentityRecords up to `normalizedRecords = Object.values(
\* mergedByStorageId)`: the merged records, lines not yet trimmed.
mergedByStorageId(records) ==
    LET normalizedRecords == [i \in DOMAIN records |-> IdentityFlat(records[i])]
    IN  ObjectValues(MergeAll(normalizedRecords, <<>>))

\* normalizeSearchRecordResponse: the records of a search result, each reduced
\* to nine fields, systemid and storageid renamed system_id and storage_id.
normalizeSearchRecordResponse(response) ==
    LET records == Get(response, "records").a
    IN  Arr([i \in DOMAIN records |->
                Obj(<<Entry("system_id", Get(records[i], "systemid")),
                      Entry("bucket", Get(records[i], "bucket")),
                      Entry("name", Get(records[i], "name")),
                      Entry("indexfile", Get(records[i], "indexfile")),
                      Entry("storage_id", Get(records[i], "storageid")),
                      Entry("media", Get(records[i], "media")),
                      Entry("type", Get(records[i], "type")),
                      Entry("added", Get(records[i], "added")),
                      Entry("date", Get(records[i], "date"))>>)])

\* String.prototype.trim: white space and line terminators off both ends.
WhiteSpace == {" ", "\n", "\t", "\r"}

RECURSIVE TrimStart(_)
TrimStart(str) ==
    IF Len(str) > 0 /\ SubSeq(str, 1, 1) \in WhiteSpace
    THEN TrimStart(SubSeq(str, 2, Len(str)))
    ELSE str

RECURSIVE TrimEnd(_)
TrimEnd(str) ==
    IF Len(str) > 0 /\ SubSeq(str, Len(str), Len(str)) \in WhiteSpace
    THEN TrimEnd(SubSeq(str, 1, Len(str) - 1))
    ELSE str

Trim(str) == TrimEnd(TrimStart(str))

\* The longest line kept whole.
LineLimit == 128

\* Mutant of TrimAndTruncate: a line of exactly LineLimit characters is cut
\* as well.
TrimAndTruncateInclusive(record) ==
    LET line == Trim(Get(record, "line").s)
        cut == IF Len(line) >= LineLimit
               THEN SubSeq(line, 1, LineLimit)
                      \o "...(More " \o ToString(Len(line) - LineLimit) \o " characters)"
               ELSE line
    IN  SetField(record, "line", Str(cut))

\* normalizeIdentityRecords, the second map callback: the line trimmed, and
\* cut to LineLimit characters with a note of how many were dropped.
TrimAndTruncate(record) ==
    LET line == Trim(Get(record, "line").s)
        cut == IF Len(line) > LineLimit
               THEN SubSeq(line, 1, LineLimit)
                      \o "...(More " \o ToString(Len(line) - LineLimit) \o " characters)"
               ELSE line
    IN  SetField(record, "line", Str(cut))

\* normalizeIdentityRecords: flatten, merge by storage id, trim and truncate,
\* then normalizeIntelxId on the list.
normalizeIdentityRecords(records, reg) ==
    LET merged == mergedByStorageId(records)
    IN  normalizeIntelxId(Arr([i \in DOMAIN merged |-> TrimAndTruncate(merged[i])]), reg)

-----------------------------------------------------------------------------
(***************************************************************************)
(* Inputs of the registry operations: raw identifiers and payload trees.   *)
(***************************************************************************)
RawStrings == {"uuid-a", "uuid-b"}

\* Keys of payload objects: two pseudonymizable names and "systemid", the
\* upstream spelling, which is not in TRANSITION_FIELDS.
TreeKeys == {"system_id", "storage_id", "systemid"}

ScalarValues == {Str(r) : r \in RawStrings} \cup {Num(1)}
Leaves == ScalarValues \cup {Null}

\* Objects of at most two entries with distinct keys.
FlatObjects ==
    {Obj(<<>>)}
    \cup {Obj(<<Entry(k, v)>>) : k \in TreeKeys, v \in ScalarValues}
    \cup {Obj(<<Entry(k1, v1), Entry(k2, v2)>>) :
            <<k1, v1, k2, v2>> \in
                {q \in TreeKeys \X ScalarValues \X TreeKeys \X ScalarValues : q[1] # q[3]}}

\* One identifier under one key, as a record of a result list has it.
IdObjects == {Obj(<<Entry(k, Str(r))>>) : k \in TreeKeys, r \in RawStrings}

Arrays ==
    {Arr(<<l>>) : l \in Leaves}
    \cup {Arr(<<o1, o2>>) : o1 \in IdObjects, o2 \in IdObjects}

\* An object or an array under a key, pseudonymizable or not.
NestedObjects ==
    {Obj(<<Entry(k, v)>>) : k \in TreeKeys,
                            v \in IdObjects \cup {Arr(<<Str(r)>>) : r \in RawStrings}}

Trees == Leaves \cup FlatObjects \cup Arrays \cup NestedObjects

\* Arguments of the two lookups: a field name as the call sites write it
\* (in TRANSITION_FIELDS or not) and a small id.
LookupFields == {"system_id", "storage_id", "systemid", "storageid"}
LookupIds == 1..3

\* Inputs of normalizeIdentityRecords: lists of IdentityRecord, each a line
\* found in the item of some storage id.
MaxIdentityRecords == 3

\* Long lines: of 63, 64 and 75 characters, so that two of them joined by a
\* newline make 128, 129 and 140 characters; each position has its own
\* character within a run of ten.
Run10 == "0123456789"
Line63 == Run10 \o Run10 \o Run10 \o Run10 \o Run10 \o Run10 \o "abc"
Line64 == Run10 \o Run10 \o Run10 \o Run10 \o Run10 \o Run10 \o "defg"
Line75 == Run10 \o Run10 \o Run10 \o Run10 \o Run10 \o Run10 \o Run10 \o "hijkl"

IdentityLines == {"foo", "bar"}
LongLines == {Line63, Line64, Line75}
MaxLongRecords == 2

IdentityRecord(line, id) ==
    Obj(<<Entry("item", Obj(<<Entry("name", Str(line \o ".txt")),
                              Entry("date", Str("2024-01-01")),
                              Entry("bucket", Str("leaks")),
                              Entry("storageid", Str(id)),
                              Entry("systemid", Str(id))>>)),
          Entry("linea", Str(line))>>)

IdentityRecords == {IdentityRecord(line, id) : line \in IdentityLines, id \in RawStrings}

\* Records with a long line, all found in one item.
LongRecords == {IdentityRecord(line, "uuid-a") : line \in LongLines}

\* Records found in items whose storage identifiers are decimal numbers, and
\* in one whose identifier is not.
NumberedIds == {"2", "10", "uuid-a"}
NumberedRecords == {IdentityRecord("foo", id) : id \in NumberedIds}
MaxNumberedRecords == 3

IdentityRecordLists ==
    UNION {[1..n -> IdentityRecords] : n \in 1..MaxIdentityRecords}
    \cup UNION {[1..n -> LongRecords] : n \in 1..MaxLongRecords}

NumberedRecordLists ==
    UNION {[1..n -> NumberedRecords] : n \in 1..MaxNumberedRecords}

-----------------------------------------------------------------------------
(***************************************************************************)
(* Registry operations as steps.  Each records its input and its result.   *)
(***************************************************************************)
\* `src` is the input as the call left it: the argument itself for the calls
\* that only read.
RegOp(op, field, inp, out) ==
    [op |-> op, field |-> field, inp |-> inp, out |-> out, src |-> inp]

\* A handler's `.then(normalizeIntelxId)` on a payload.
Normalize(tree) ==
    LET r == normalizeIntelxId(tree, CurrentRegistry)
    IN  /\ uuidToIdMaps' = r.reg.fwd
        /\ idToUuidMaps' = r.reg.rev
        /\ counters' = r.reg.ctr
        /\ regOp' = [RegOp("normalize", "", tree, r.out) EXCEPT !.src = Walked(tree, r.out)]
        /\ UNCHANGED <<pollVars, gateVars, handlerVars>>

\* denormalizeIntelxId on a payload.
Denormalize(tree) ==
    /\ regOp' = RegOp("denormalize", "", tree, denormalizeIntelxId(tree, CurrentRegistry))
    /\ UNCHANGED <<uuidToIdMaps, idToUuidMaps, counters>>
    /\ UNCHANGED <<pollVars, gateVars, handlerVars>>

\* denormalizeIntelxId on what the last normalizeIntelxId returned.
DenormalizeLast ==
    /\ regOp.op = "normalize"
    /\ regOp' = RegOp("roundtrip", "", regOp.inp,
                      denormalizeIntelxId(regOp.out, CurrentRegistry))
    /\ UNCHANGED <<uuidToIdMaps, idToUuidMaps, counters>>
    /\ UNCHANGED <<pollVars, gateVars, handlerVars>>

\* normalizeIntelxId on what the last normalizeIntelxId returned, as in a
\* chain whose previous callback ended with it.
NormalizeLast ==
    /\ regOp.op = "normalize"
    /\ LET r == normalizeIntelxId(regOp.out, CurrentRegistry)
       IN  /\ uuidToIdMaps' = r.reg.fwd
           /\ idToUuidMaps' = r.reg.rev
           /\ counters' = r.reg.ctr
           /\ regOp' = [RegOp("renormalize", "", regOp.out, r.out)
                          EXCEPT !.src = Walked(regOp.out, r.out)]
    /\ UNCHANGED <<pollVars, gateVars, handlerVars>>

GetOriginalUuid(field, id) ==
    /\ regOp' = RegOp("getOriginalUuid", field, Num(id),
                      getOriginalUuid(CurrentRegistry, field, id))
    /\ UNCHANGED <<uuidToIdMaps, idToUuidMaps, counters>>
    /\ UNCHANGED <<pollVars, gateVars, handlerVars>>

\* Mutant of GetNormalizedId: a raw value without an identifier is given one.
GetNormalizedIdAllocating(field, uuid) ==
    /\ regOp' = RegOp("getNormalizedId", field, Str(uuid),
                      getNormalizedId(CurrentRegistry, field, uuid))
    /\ LET a == IF field \in TRANSITION_FIELDS
                THEN AssignId(CurrentRegistry, field, uuid).reg
                ELSE CurrentRegistry
       IN  /\ uuidToIdMaps' = a.fwd
           /\ idToUuidMaps' = a.rev
           /\ counters' = a.ctr
    /\ UNCHANGED <<pollVars, gateVars, handlerVars>>

GetNormalizedId(field, uuid) ==
    /\ regOp' = RegOp("getNormalizedId", field, Str(uuid),
                      getNormalizedId(CurrentRegistry, field, uuid))
    /\ UNCHANGED <<uuidToIdMaps, idToUuidMaps, counters>>
    /\ UNCHANGED <<pollVars, gateVars, handlerVars>>

\* normalizeIdentityRecords on the records an identity search returned.
NormalizeIdentityRecords(records) ==
    LET r == normalizeIdentityRecords(records, CurrentRegistry)
    IN  /\ uuidToIdMaps' = r.reg.fwd
        /\ idToUuidMaps' = r.reg.rev
        /\ counters' = r.reg.ctr
        /\ regOp' = RegOp("normalizeIdentityRecords", "", Arr(records), r.out)
        /\ UNCHANGED <<pollVars, gateVars, handlerVars>>

RegInit ==
    /\ uuidToIdMaps = InitialRegistry.fwd
    /\ idToUuidMaps = InitialRegistry.rev
    /\ counters = InitialRegistry.ctr
    /\ regOp = RegOp("init", "", Null, Null)

RegNext ==
    \/ \E tree \in Trees : Normalize(tree)
    \/ \E tree \in Trees : Denormalize(tree)
    \/ DenormalizeLast
    \/ NormalizeLast
    \/ \E field \in LookupFields, id \in LookupIds : GetOriginalUuid(field, id)
    \/ \E field \in LookupFields, uuid \in RawStrings : GetNormalizedId(field, uuid)

\* The identity handler's first callback, call after call on one registry.
IdentityNext ==
    \E records \in IdentityRecordLists : NormalizeIdentityRecords(records)

\* The same callback on records of items with numbered storage identifiers.
IdentityOrderNext ==
    \E records \in NumberedRecordLists : NormalizeIdentityRecords(records)

-----------------------------------------------------------------------------
(***************************************************************************)
(* The polling loops.                                                      *)
(*                                                                         *)
(* lib/constants.js is not among the sources.  SEARCH_STATUS takes the     *)
(* result-status numbering of the upstream API, which IdentityClient       *)
(* writes as literals: 0 results, 1 no more results, 2 id not found,       *)
(* 3 nothing yet.                                                          *)
(***************************************************************************)
SEARCH_STATUS == [SUCCESS |-> 0, NO_MORE_RESULTS |-> 1, NOT_FOUND |-> 2]

\* Bounds of the sessions explored.
MaxBudget == 3
MaxBatch == 2
MaxRounds == 3

\* `params.maxresults || 100`, `params.maxresults || 1000`, `params.limit || 100`
\* and the default parameter `maxresults: number = 100`.
SearchDefaultMaxResults == 100
PhonebookDefaultMaxResults == 1000
IdentityDefaultLimit == 100
ExportDefaultMaxResults == 100

Families == {"search", "phonebook", "identity", "export"}

\* The budget a caller asks for: a positive number, or none.
RequestedBudgets ==
    {[given |-> FALSE, n |-> 0]} \cup {[given |-> TRUE, n |-> b] : b \in 1..MaxBudget}

\* x || d on an optional number: d when x is undefined or 0.
OrDefault(req, d) == IF req.given /\ req.n # 0 THEN req.n ELSE d

\* Default parameter value: d only when the argument is undefined.
ParamDefault(req, d) == IF req.given THEN req.n ELSE d

\* What the upstream can answer to a poll: an HTTP outcome, a status code and
\* a record list (or selector list) that may be missing from the body.
StatusCodes == 0..3
BatchSizes == (0..MaxBatch) \cup {SearchDefaultMaxResults}
PollOutcome(ok, status, has, n) == [ok |-> ok, status |-> status, has |-> has, n |-> n]
PollOutcomes ==
    {PollOutcome(FALSE, 0, FALSE, 0)}
    \cup {PollOutcome(TRUE, st, FALSE, 0) : st \in StatusCodes}
    \cup {PollOutcome(TRUE, st, TRUE, n) : st \in StatusCodes, n \in BatchSizes}
NoResults == PollOutcome(FALSE, 0, FALSE, 0)

\* What the upstream can answer to a submit: an HTTP outcome, the status field
\* and the length of the returned id.
SubmitOutcomes == [ok : BOOLEAN, status : {0, 1}, idLength : {3, 36}]
NoSubmit == [ok |-> FALSE, status |-> 0, idLength |-> 0]

\* How a terminate call can end: a success response, a response that is not
\* ok, or a fetch that rejects (the request never completed).
TerminateOutcomes == {"ok", "not ok", "rejected"}

\* The errors the clients throw, by the start of their messages; "TypeError"
\* and "fetch failed" are thrown by the runtime.
Errors == {"API error", "Invalid search term", "Invalid search ID", "TypeError", "fetch failed"}

\* One entry of allRecords: the n records of one push of round `round`.
Batch(round, n) == [round |-> round, n |-> n]

RECURSIVE SumN(_)
SumN(seq) == IF seq = <<>> THEN 0 ELSE Head(seq).n + SumN(Tail(seq))

\* allRecords.length (for phonebook: the selectors over all kept responses).
Accumulated == SumN(allRecords)

Call(op, arg) == [op |-> op, arg |-> arg]

\* The client a method belongs to: index.ts holds one of each.
ClientOf(fam) == IF fam \in {"identity", "export"} THEN "IdentityClient" ELSE "IntelXClient"

\* The methods of IntelXClient that make one upstream call and return.
SingleShots ==
    {"filePreview", "fileView", "fileRead", "fileTreeView", "getSelectors", "getCapabilities"}

UpstreamOps == {"submit", "poll", "terminate"} \cup SingleShots

\* Mutant of Upstream: the call is made without a pass through the gate.
UpstreamNoGate(client, op, arg) ==
    <<[op |-> op, arg |-> arg, client |-> client]>>

\* A client method that calls the upstream: `await this.rateLimit()`, then
\* fetch.  Both are entered in the session's calls with the client they
\* belong to.
Upstream(client, op, arg) ==
    <<[op |-> "rateLimit", arg |-> 0, client |-> client],
      [op |-> op, arg |-> arg, client |-> client]>>

PollInit ==
    /\ family = "none"
    /\ pc = "idle"
    /\ initialBudget = 0
    /\ maxresults = 0
    /\ allRecords = <<>>
    /\ results = NoResults
    /\ rounds = <<>>
    /\ calls = <<>>
    /\ submitted = NoSubmit
    /\ terminated = "none"
    /\ error = "none"

\* Mutant of Throw: the error is noted and the method goes on to its loop.
ThrowAndGoOn(err) ==
    /\ pc' = "delay"
    /\ error' = err
    /\ UNCHANGED <<initialBudget, maxresults, allRecords, results, rounds>>

\* The session fails: the exception leaves the method, nothing is returned.
Throw(err) ==
    /\ pc' = "failed"
    /\ error' = err
    /\ UNCHANGED <<initialBudget, maxresults, allRecords, results, rounds>>

\* The loop is entered with its budget.
EnterLoop(budget) ==
    /\ pc' = "delay"
    /\ initialBudget' = budget
    /\ maxresults' = budget
    /\ UNCHANGED <<allRecords, results, rounds, error>>

\* IntelXClient.search up to its loop: intelligentSearch(params), then
\* `let maxresults = params.maxresults || 100`.
SearchSubmit(req, resp) ==
    /\ pc = "idle"
    /\ family' = "search"
    /\ calls' = calls \o Upstream(ClientOf("search"), "submit", 0)
    /\ submitted' = resp
    /\ IF ~resp.ok
       THEN Throw("API error")
       ELSE IF resp.status = 1
       THEN Throw("Invalid search term")
       ELSE EnterLoop(OrDefault(req, SearchDefaultMaxResults))
    /\ UNCHANGED terminated
    /\ UNCHANGED <<regVars, gateVars, handlerVars>>

\* IntelXClient.phonebookSearchComplete up to its loop: phonebookSearch(params),
\* then `let maxresults = params.maxresults || 1000`.
PhonebookSubmit(req, resp) ==
    /\ pc = "idle"
    /\ family' = "phonebook"
    /\ calls' = calls \o Upstream(ClientOf("phonebook"), "submit", 0)
    /\ submitted' = resp
    /\ IF ~resp.ok
       THEN Throw("API error")
       ELSE EnterLoop(OrDefault(req, PhonebookDefaultMaxResults))
    /\ UNCHANGED terminated
    /\ UNCHANGED <<regVars, gateVars, handlerVars>>

\* IdentityClient.search up to its loop.
IdentitySubmit(req, resp) ==
    /\ pc = "idle"
    /\ family' = "identity"
    /\ calls' = calls \o Upstream(ClientOf("identity"), "submit", 0)
    /\ submitted' = resp
    /\ IF ~resp.ok
       THEN Throw("API error")
       ELSE IF resp.idLength <= 3
       THEN Throw("Invalid search ID")
       ELSE EnterLoop(OrDefault(req, IdentityDefaultLimit))
    /\ UNCHANGED terminated
    /\ UNCHANGED <<regVars, gateVars, handlerVars>>

\* IdentityClient.exportAccounts up to its loop.
ExportSubmit(req, resp) ==
    /\ pc = "idle"
    /\ family' = "export"
    /\ calls' = calls \o Upstream(ClientOf("export"), "submit", 0)
    /\ submitted' = resp
    /\ IF ~resp.ok
       THEN Throw("API error")
       ELSE IF resp.idLength <= 3
       THEN Throw("Invalid search ID")
       ELSE EnterLoop(ParamDefault(req, ExportDefaultMaxResults))
    /\ UNCHANGED terminated
    /\ UNCHANGED <<regVars, gateVars, handlerVars>>

\* await new Promise((resolve) => setTimeout(resolve, 1000)) at the loop head.
Delay ==
    /\ pc = "delay"
    /\ Len(rounds) < MaxRounds
    /\ pc' = "poll"
    /\ calls' = Append(calls, Call("delay", 0))
    /\ UNCHANGED <<family, initialBudget, maxresults, allRecords, results, rounds>>
    /\ UNCHANGED <<submitted, terminated, error>>
    /\ UNCHANGED <<regVars, gateVars, handlerVars>>

\* What one pass through a loop body leaves: the budget, the accumulated
\* result and where the loop goes ("delay": another round; "terminate": the
\* terminate call, then return; "done": return).
RoundResult(budget, acc, next) == [maxresults |-> budget, allRecords |-> acc, next |-> next]

\* Mutants of FinishOn: terminate on every exit; terminate on none.
FinishOnAlwaysTerminate(budget) == "terminate"

FinishOnNeverTerminate(budget) == "done"

\* if (<terminal>) { if (maxresults <= 0) await terminateSearch(); break; }
FinishOn(budget) == IF budget <= 0 THEN "terminate" ELSE "done"

\* Mutant of SearchRound: a batch larger than the budget is cut to the budget.
SearchRoundTruncating(budget, acc, round, res) ==
    LET isArray == res.has
        kept == IF res.n > budget THEN budget ELSE res.n
        acc1 == IF isArray THEN Append(acc, Batch(round, kept)) ELSE acc
        b1 == IF isArray THEN budget - res.n ELSE budget
    IN  IF res.status = SEARCH_STATUS.SUCCESS /\ (~res.has \/ res.n = 0)
        THEN RoundResult(b1, acc1, "delay")
        ELSE IF \/ res.status = SEARCH_STATUS.NO_MORE_RESULTS
                \/ res.status = SEARCH_STATUS.NOT_FOUND
                \/ b1 <= 0
        THEN RoundResult(b1, acc1, FinishOn(b1))
        ELSE RoundResult(b1, acc1, "delay")

\* IntelXClient.search, the loop body after getSearchResults returned `res`.
SearchRound(budget, acc, round, res) ==
    LET isArray == res.has
        acc1 == IF isArray THEN Append(acc, Batch(round, res.n)) ELSE acc
        b1 == IF isArray THEN budget - res.n ELSE budget
    IN  IF res.status = SEARCH_STATUS.SUCCESS /\ (~res.has \/ res.n = 0)
        THEN RoundResult(b1, acc1, "delay")
        ELSE IF \/ res.status = SEARCH_STATUS.NO_MORE_RESULTS
                \/ res.status = SEARCH_STATUS.NOT_FOUND
                \/ b1 <= 0
        THEN RoundResult(b1, acc1, FinishOn(b1))
        ELSE RoundResult(b1, acc1, "delay")

\* Mutant of PhonebookRound: a response without selectors is not kept.
PhonebookRoundSkipEmpty(budget, acc, round, res) ==
    LET acc1 == IF res.n = 0 THEN acc ELSE Append(acc, Batch(round, res.n))
        b1 == budget - res.n
    IN  IF \/ res.status = SEARCH_STATUS.NO_MORE_RESULTS
           \/ res.status = SEARCH_STATUS.NOT_FOUND
           \/ b1 <= 0
        THEN RoundResult(b1, acc1, FinishOn(b1))
        ELSE RoundResult(b1, acc1, "delay")

\* IntelXClient.phonebookSearchComplete, the loop body after
\* getPhonebookResults returned `res` (with a selectors list): the response
\* is kept whole, one entry per round.
PhonebookRound(budget, acc, round, res) ==
    LET acc1 == Append(acc, Batch(round, res.n))
        b1 == budget - res.n
    IN  IF \/ res.status = SEARCH_STATUS.NO_MORE_RESULTS
           \/ res.status = SEARCH_STATUS.NOT_FOUND
           \/ b1 <= 0
        THEN RoundResult(b1, acc1, FinishOn(b1))
        ELSE RoundResult(b1, acc1, "delay")

\* IdentityClient.search, the loop body after getSearchResults returned `res`.
IdentityRound(budget, acc, round, res) ==
    LET taken == res.status = 0 /\ res.has
        acc1 == IF taken THEN Append(acc, Batch(round, res.n)) ELSE acc
        b1 == IF taken THEN budget - res.n ELSE budget
        acc2 == IF res.has THEN Append(acc1, Batch(round, res.n)) ELSE acc1
    IN  IF res.status = 2 \/ b1 <= 0
        THEN RoundResult(b1, acc2, FinishOn(b1))
        ELSE IF res.status = 3
        THEN RoundResult(b1, acc1, "terminate")
        ELSE RoundResult(b1, acc1, "delay")

\* Mutant of ExportRound: the loop ends on the not-found status only.
ExportRoundIgnoringBudget(budget, acc, round, res) ==
    LET taken == res.status = 0 /\ res.has
        acc1 == IF taken THEN Append(acc, Batch(round, res.n)) ELSE acc
        b1 == IF taken THEN budget - res.n ELSE budget
    IN  IF res.status = 2
        THEN RoundResult(b1, acc1, FinishOn(b1))
        ELSE RoundResult(b1, acc1, "delay")

\* IdentityClient.exportAccounts, the loop body after getSearchResults
\* returned `res`.
ExportRound(budget, acc, round, res) ==
    LET taken == res.status = 0 /\ res.has
        acc1 == IF taken THEN Append(acc, Batch(round, res.n)) ELSE acc
        b1 == IF taken THEN budget - res.n ELSE budget
    IN  IF res.status = 2 \/ b1 <= 0
        THEN RoundResult(b1, acc1, FinishOn(b1))
        ELSE RoundResult(b1, acc1, "delay")

\* The loop body of a family.
RoundOf(fam, budget, acc, round, res) ==
    CASE fam = "search" -> SearchRound(budget, acc, round, res)
      [] fam = "phonebook" -> PhonebookRound(budget, acc, round, res)
      [] fam = "identity" -> IdentityRound(budget, acc, round, res)
      [] fam = "export" -> ExportRound(budget, acc, round, res)

\* Mutant of PollCall: the poll is made with the default limit.
PollCallDefaultLimit(fam, res) ==
    /\ pc = "poll"
    /\ family = fam
    /\ calls' = calls \o Upstream(ClientOf(fam), "poll", SearchDefaultMaxResults)
    /\ rounds' = Append(rounds, res)
    /\ UNCHANGED <<family, initialBudget, submitted, terminated>>

\* The poll call is made with the current budget as its limit; a response that
\* is not ok makes getSearchResults / getPhonebookResults throw.
PollCall(fam, res) ==
    /\ pc = "poll"
    /\ family = fam
    /\ calls' = calls \o Upstream(ClientOf(fam), "poll", maxresults)
    /\ rounds' = Append(rounds, res)
    /\ UNCHANGED <<family, initialBudget, submitted, terminated>>

Apply(res, r) ==
    /\ results' = res
    /\ maxresults' = r.maxresults
    /\ allRecords' = r.allRecords
    /\ pc' = r.next
    /\ UNCHANGED error

\* Mutant of Failed: the loop goes round again after a failed poll call.
FailedRetries(err) ==
    /\ pc' = "delay"
    /\ UNCHANGED <<maxresults, allRecords, results, error>>

\* getSearchResults / getPhonebookResults throws, or the loop body does: the
\* exception leaves the loop and the method.
Failed(err) ==
    /\ pc' = "failed"
    /\ error' = err
    /\ UNCHANGED <<maxresults, allRecords, results>>

SearchPoll(res) ==
    /\ PollCall("search", res)
    /\ IF ~res.ok
       THEN Failed("API error")
       ELSE Apply(res, SearchRound(maxresults, allRecords, Len(rounds) + 1, res))
    /\ UNCHANGED <<regVars, gateVars, handlerVars>>

\* results.selectors.length on a body without selectors is a TypeError.
PhonebookPoll(res) ==
    /\ PollCall("phonebook", res)
    /\ IF ~res.ok
       THEN Failed("API error")
       ELSE IF ~res.has
       THEN Failed("TypeError")
       ELSE Apply(res, PhonebookRound(maxresults, allRecords, Len(rounds) + 1, res))
    /\ UNCHANGED <<regVars, gateVars, handlerVars>>

IdentityPoll(res) ==
    /\ PollCall("identity", res)
    /\ IF ~res.ok
       THEN Failed("API error")
       ELSE Apply(res, IdentityRound(maxresults, allRecords, Len(rounds) + 1, res))
    /\ UNCHANGED <<regVars, gateVars, handlerVars>>

ExportPoll(res) ==
    /\ PollCall("export", res)
    /\ IF ~res.ok
       THEN Failed("API error")
       ELSE Apply(res, ExportRound(maxresults, allRecords, Len(rounds) + 1, res))
    /\ UNCHANGED <<regVars, gateVars, handlerVars>>

\* Mutant of Terminate: without the break, the loop goes round again.
TerminateAndGoOn(outcome) ==
    /\ pc = "terminate"
    /\ calls' = calls \o Upstream(ClientOf(family), "terminate", IF outcome = "ok" THEN 1 ELSE 0)
    /\ terminated' = outcome
    /\ IF outcome = "rejected"
       THEN /\ pc' = "failed"
            /\ error' = "fetch failed"
       ELSE /\ pc' = "delay"
            /\ UNCHANGED error
    /\ UNCHANGED <<family, initialBudget, maxresults, allRecords, results, rounds>>
    /\ UNCHANGED submitted
    /\ UNCHANGED <<regVars, gateVars, handlerVars>>

\* await this.terminateSearch(searchId), then break: the response is not
\* looked at by any of the loops, and nothing catches a fetch that rejects.
Terminate(outcome) ==
    /\ pc = "terminate"
    /\ calls' = calls \o Upstream(ClientOf(family), "terminate", IF outcome = "ok" THEN 1 ELSE 0)
    /\ terminated' = outcome
    /\ IF outcome = "rejected"
       THEN /\ pc' = "failed"
            /\ error' = "fetch failed"
       ELSE /\ pc' = "done"
            /\ UNCHANGED error
    /\ UNCHANGED <<family, initialBudget, maxresults, allRecords, results, rounds>>
    /\ UNCHANGED submitted
    /\ UNCHANGED <<regVars, gateVars, handlerVars>>

\* One of the single-call methods of IntelXClient, start to end: the gate,
\* the fetch, and an error when the response is not ok.
SingleShot(method, ok) ==
    /\ pc = "idle"
    /\ family' = method
    /\ calls' = calls \o Upstream(ClientOf(method), method, 0)
    /\ IF ok
       THEN /\ pc' = "done"
            /\ UNCHANGED <<initialBudget, maxresults, allRecords, results, rounds, error>>
       ELSE Throw("API error")
    /\ UNCHANGED <<submitted, terminated>>
    /\ UNCHANGED <<regVars, gateVars, handlerVars>>

PollNext ==
    \/ \E req \in RequestedBudgets, resp \in SubmitOutcomes : SearchSubmit(req, resp)
    \/ \E req \in RequestedBudgets, resp \in SubmitOutcomes : PhonebookSubmit(req, resp)
    \/ \E req \in RequestedBudgets, resp \in SubmitOutcomes : IdentitySubmit(req, resp)
    \/ \E req \in RequestedBudgets, resp \in SubmitOutcomes : ExportSubmit(req, resp)
    \/ Delay
    \/ \E res \in PollOutcomes : SearchPoll(res)
    \/ \E res \in PollOutcomes : PhonebookPoll(res)
    \/ \E res \in PollOutcomes : IdentityPoll(res)
    \/ \E res \in PollOutcomes : ExportPoll(res)
    \/ \E outcome \in TerminateOutcomes : Terminate(outcome)
    \/ \E method \in SingleShots, ok \in BOOLEAN : SingleShot(method, ok)

\* The loop past the rounds whose history is kept.  The upstream goes on
\* answering as it last did, with no further records; the session waits,
\* polls and runs its loop body as before, and only the history (rounds,
\* calls, the entries of the accumulated result) is no longer extended.
DelayOn ==
    /\ pc = "delay"
    /\ Len(rounds) >= MaxRounds
    /\ pc' = "poll on"
    /\ UNCHANGED <<family, initialBudget, maxresults, allRecords, results, rounds, calls>>
    /\ UNCHANGED <<submitted, terminated, error>>
    /\ UNCHANGED <<regVars, gateVars, handlerVars>>

PollOn ==
    /\ pc = "poll on"
    /\ LET res == [results EXCEPT !.n = 0]
           r == RoundOf(family, maxresults, allRecords, Len(rounds), res)
       IN  /\ pc' = r.next
           /\ maxresults' = r.maxresults
    /\ UNCHANGED <<family, initialBudget, allRecords, results, rounds, calls>>
    /\ UNCHANGED <<submitted, terminated, error>>
    /\ UNCHANGED <<regVars, gateVars, handlerVars>>

PollLiveNext ==
    \/ PollNext
    \/ DelayOn
    \/ PollOn

-----------------------------------------------------------------------------
(***************************************************************************)
(* The rate gate: rateLimit() of one client, called by concurrent sessions.*)
(* Time is counted in ticks; API_RATE_LIMIT_MS comes from lib/constants.js,*)
(* which is not among the sources, and is taken as a fixed number of ticks.*)
(***************************************************************************)
API_RATE_LIMIT_MS == 2

\* Bounds of the gate runs explored.
NumCallers == 2
MaxTime == 7

Callers == 1..NumCallers

GateInit ==
    /\ now = API_RATE_LIMIT_MS
    /\ lastRequestTime = 0
    /\ gate = [c \in Callers |-> [pc |-> "idle", wake |-> 0]]
    /\ passes = <<>>

\* The clock advances.
Tick ==
    /\ now < MaxTime
    /\ now' = now + 1
    /\ UNCHANGED <<lastRequestTime, gate, passes>>
    /\ UNCHANGED <<regVars, pollVars, handlerVars>>

\* Mutant of Pass: the pass is not recorded in lastRequestTime.
PassNoRecord(c) ==
    /\ lastRequestTime' = lastRequestTime
    /\ passes' = Append(passes, <<c, now>>)

\* this.lastRequestTime = Date.now(): the caller is through the gate.
Pass(c) ==
    /\ lastRequestTime' = now
    /\ passes' = Append(passes, <<c, now>>)

\* rateLimit() is entered: it reads the clock and lastRequestTime, and either
\* goes through at once or arms a timer for the rest of the interval.
RateLimitEnter(c) ==
    /\ gate[c].pc = "idle"
    /\ LET timeSinceLastRequest == now - lastRequestTime
       IN  IF timeSinceLastRequest < API_RATE_LIMIT_MS
           THEN /\ gate' = [gate EXCEPT ![c] =
                              [pc |-> "sleeping",
                               wake |-> now + (API_RATE_LIMIT_MS - timeSinceLastRequest)]]
                /\ UNCHANGED <<lastRequestTime, passes>>
           ELSE /\ Pass(c)
                /\ UNCHANGED gate
    /\ UNCHANGED now
    /\ UNCHANGED <<regVars, pollVars, handlerVars>>

\* The timer fires, at its time or later, and rateLimit() goes on to its
\* last statement.
RateLimitWake(c) ==
    /\ gate[c].pc = "sleeping"
    /\ now >= gate[c].wake
    /\ Pass(c)
    /\ gate' = [gate EXCEPT ![c] = [pc |-> "idle", wake |-> 0]]
    /\ UNCHANGED now
    /\ UNCHANGED <<regVars, pollVars, handlerVars>>

GateNext ==
    \/ Tick
    \/ \E c \in Callers : RateLimitEnter(c)
    \/ \E c \in Callers : RateLimitWake(c)

-----------------------------------------------------------------------------
(***************************************************************************)
(* The tool and resource handlers of index.ts, as concurrent requests on   *)
(* the one registry of the process.  A handler runs from one await to the  *)
(* next without interruption; between two awaits, and between two `.then`  *)
(* callbacks of its promise chain, the handlers of other requests may run. *)
(* The client method a handler awaits is taken as one upstream exchange:   *)
(* its loop is the subject of SpecPoll.                                    *)
(***************************************************************************)
NumRequests == 2
Requests == 1..NumRequests

\* Handlers that return what a client method found.
SearchTools ==
    {"intelx_intelligent_search", "intelx_identity_search",
     "intelx_export_accounts", "search resource"}

\* Handlers that take an integer identifier and test what it resolves to.
ResolvingTools ==
    {"intelx_file_preview", "intelx_file_view", "intelx_file_read",
     "intelx_file_treeview", "intelx_get_selectors"}

\* Handlers that take an integer identifier and pass on what it resolves to.
ResolvingResources == {"file resource", "tree resource"}

\* The parameter a handler reads the identifier from; the tree view reads
\* either (one of the two is given).
Params(tool) ==
    CASE tool \in {"intelx_file_preview", "intelx_file_view", "tree resource"} -> {"storage_id"}
      [] tool \in {"intelx_file_read", "intelx_get_selectors", "file resource"} -> {"system_id"}
      [] tool = "intelx_file_treeview" -> {"storage_id", "system_id"}
      [] OTHER -> {}

\* The field name the handlers give getOriginalUuid for that parameter.
CallSiteField(param) == IF param = "storage_id" THEN "storageid" ELSE "systemid"

\* The identifiers a caller passes.
HandlerIds == 1..2

\* The `.then` callbacks of a handler's promise chain, in order.
Chain(tool) ==
    CASE tool = "intelx_intelligent_search" ->
            <<"normalizeSearchRecordResponse", "normalizeIntelxId">>
      [] tool = "intelx_identity_search" ->
            <<"normalizeIdentityRecords", "normalizeIntelxId">>
      [] tool = "file resource" -> <<>>
      [] OTHER -> <<"normalizeIntelxId">>

\* What the upstream holds: items with a system id and a storage id.
UpstreamItem(systemid, storageid) == [systemid |-> systemid, storageid |-> storageid]
UpstreamResults ==
    {<<UpstreamItem("uuid-a", "uuid-b")>>,
     <<UpstreamItem("uuid-b", "uuid-a")>>,
     <<UpstreamItem("uuid-a", "uuid-b"), UpstreamItem("uuid-b", "uuid-a")>>}

SearchRecord(item) ==
    Obj(<<Entry("systemid", Str(item.systemid)),
          Entry("name", Str("paste.txt")),
          Entry("bucket", Str("pastes")),
          Entry("storageid", Str(item.storageid))>>)

AccountRecord(item) ==
    Obj(<<Entry("user", Str("user@example.com")),
          Entry("password", Str("hunter2")),
          Entry("systemid", Str(item.systemid))>>)

TreeViewItem(item) ==
    Obj(<<Entry("systemid", Str(item.systemid)), Entry("name", Str("file.txt"))>>)

Selector(item) ==
    Obj(<<Entry("systemid", Str(item.systemid)), Entry("selector", Str("user@example.com"))>>)

\* What the client method of a handler resolves to when the upstream holds
\* `items`: a search result, record lists, a text, an ArrayBuffer (an object
\* without entries of its own).
Resolved(tool, items) ==
    CASE tool \in {"intelx_intelligent_search", "search resource"} ->
            Obj(<<Entry("status", Num(0)),
                  Entry("records", Arr([i \in DOMAIN items |-> SearchRecord(items[i])]))>>)
      [] tool = "intelx_identity_search" ->
            Arr([i \in DOMAIN items |-> IdentityRecord("foo", items[i].storageid)])
      [] tool = "intelx_export_accounts" ->
            Arr([i \in DOMAIN items |-> AccountRecord(items[i])])
      [] tool \in {"intelx_file_treeview", "tree resource"} ->
            Arr([i \in DOMAIN items |-> TreeViewItem(items[i])])
      [] tool = "intelx_get_selectors" ->
            Arr([i \in DOMAIN items |-> Selector(items[i])])
      [] tool \in {"intelx_file_read", "file resource"} -> Obj(<<>>)
      [] OTHER -> Str("text")

\* One `.then` callback applied to the value of the chain: its result, the
\* registry it leaves and the assignments it made or reused.
ApplyCallback(name, value, reg) ==
    CASE name = "normalizeSearchRecordResponse" ->
            [out |-> normalizeSearchRecordResponse(value), reg |-> reg, assigned |-> {}]
      [] name = "normalizeIdentityRecords" ->
            LET merged == mergedByStorageId(value.a)
                trimmed == Arr([i \in DOMAIN merged |-> TrimAndTruncate(merged[i])])
                r == normalizeIdentityRecords(value.a, reg)
            IN  [out |-> r.out, reg |-> r.reg, assigned |-> Assigned(trimmed, r.out)]
      [] OTHER ->
            LET r == normalizeIntelxId(value, reg)
            IN  [out |-> r.out, reg |-> r.reg, assigned |-> Assigned(value, r.out)]

\* A request: the handler, its position ("idle", "awaiting" the client,
\* "then" in its chain, "returned", "failed"), the identifier parameter and
\* value it was given, what the parameter resolves to in the field the
\* handler asks and in the field of that name, what was sent upstream,
\* the value in its chain or returned, and the error thrown.
NoRequest ==
    [tool |-> "none", pc |-> "idle", param |-> "", id |-> 0,
     resolved |-> Null, expected |-> Null, sent |-> Null, upstream |-> FALSE,
     stage |-> 0, value |-> Null, assigned |-> {}, error |-> "none"]

HandlerInit == requests = [r \in Requests |-> NoRequest]

\* A search handler up to its await: the client method is called.
CallSearchTool(r, tool) ==
    /\ requests[r].pc = "idle"
    /\ requests' = [requests EXCEPT ![r] =
                      [NoRequest EXCEPT !.tool = tool, !.pc = "awaiting", !.upstream = TRUE]]
    /\ UNCHANGED <<regVars, pollVars, gateVars>>

\* A handler that takes an identifier, up to its await: the schema (tools) or
\* the presence test (resources), getOriginalUuid, the test of its result
\* (tools only), the call of the client method with it.
CallResolvingTool(r, tool, param, id, valid) ==
    /\ requests[r].pc = "idle"
    /\ LET q == [NoRequest EXCEPT !.tool = tool, !.param = param, !.id = id]
           resolved == getOriginalUuid(CurrentRegistry, CallSiteField(param), id)
           expected == getOriginalUuid(CurrentRegistry, param, id)
           looked == [q EXCEPT !.resolved = resolved, !.expected = expected]
       IN  requests' = [requests EXCEPT ![r] =
              IF ~valid
              THEN [q EXCEPT !.pc = "failed",
                             !.error = IF tool \in ResolvingTools
                                       THEN "ZodError"
                                       ELSE "Missing required parameters"]
              ELSE IF tool \in ResolvingTools /\ resolved = Undefined
              THEN [looked EXCEPT !.pc = "failed", !.error = "Invalid " \o param]
              ELSE [looked EXCEPT !.pc = "awaiting", !.sent = resolved, !.upstream = TRUE]]
    /\ UNCHANGED <<regVars, pollVars, gateVars>>

\* Mutant of Settle: the records are normalized as they arrive, before the
\* client method is known to have succeeded.
SettleNormalizingFirst(r, ok, items) ==
    /\ requests[r].pc = "awaiting"
    /\ LET q == requests[r]
           found == Resolved("intelx_intelligent_search", items)
           n == normalizeIntelxId(normalizeSearchRecordResponse(found), CurrentRegistry)
       IN  /\ uuidToIdMaps' = n.reg.fwd
           /\ idToUuidMaps' = n.reg.rev
           /\ counters' = n.reg.ctr
           /\ requests' = [requests EXCEPT ![r] =
                  IF ~ok
                  THEN [q EXCEPT !.pc = "failed", !.error = "API error"]
                  ELSE [q EXCEPT !.pc = IF Chain(q.tool) = <<>> THEN "returned" ELSE "then",
                                 !.stage = 1,
                                 !.value = Resolved(q.tool, items)]]
    /\ UNCHANGED <<regOp, pollVars, gateVars>>

\* The client method settles: it throws, or it resolves and the chain starts
\* (a handler without a chain returns).
Settle(r, ok, items) ==
    /\ requests[r].pc = "awaiting"
    /\ LET q == requests[r]
       IN  requests' = [requests EXCEPT ![r] =
              IF ~ok
              THEN [q EXCEPT !.pc = "failed", !.error = "API error"]
              ELSE [q EXCEPT !.pc = IF Chain(q.tool) = <<>> THEN "returned" ELSE "then",
                             !.stage = 1,
                             !.value = Resolved(q.tool, items)]]
    /\ UNCHANGED <<regVars, pollVars, gateVars>>

\* The next callback of the chain runs, start to end; after the last one the
\* handler returns the value (the file read handler first gives it to
\* Buffer.from, which rejects an object that is no buffer).
Then(r) ==
    /\ requests[r].pc = "then"
    /\ LET q == requests[r]
           chain == Chain(q.tool)
           last == q.stage = Len(chain)
           a == ApplyCallback(chain[q.stage], q.value, CurrentRegistry)
           notBuffer == q.tool = "intelx_file_read" /\ IsPlainObject(a.out)
       IN  /\ uuidToIdMaps' = a.reg.fwd
           /\ idToUuidMaps' = a.reg.rev
           /\ counters' = a.reg.ctr
           /\ requests' = [requests EXCEPT ![r] =
                  [q EXCEPT !.value = a.out,
                            !.assigned = @ \cup a.assigned,
                            !.stage = IF last THEN @ ELSE @ + 1,
                            !.pc = IF ~last THEN "then"
                                   ELSE IF notBuffer THEN "failed" ELSE "returned",
                            !.error = IF last /\ notBuffer THEN "TypeError" ELSE @]]
    /\ UNCHANGED <<regOp, pollVars, gateVars>>

HandlerNext ==
    \/ \E r \in Requests, tool \in SearchTools : CallSearchTool(r, tool)
    \/ \E r \in Requests, tool \in ResolvingTools \cup ResolvingResources :
          \E param \in Params(tool), id \in HandlerIds, valid \in BOOLEAN :
              CallResolvingTool(r, tool, param, id, valid)
    \/ \E r \in Requests, ok \in BOOLEAN, items \in UpstreamResults : Settle(r, ok, items)
    \/ \E r \in Requests : Then(r)

-----------------------------------------------------------------------------
(***************************************************************************)
(* The specifications.                                                     *)
(***************************************************************************)
Init == RegInit /\ PollInit /\ GateInit /\ HandlerInit

SpecRegistry == Init /\ [][RegNext]_vars
SpecPoll == Init /\ [][PollNext]_vars
SpecGate == Init /\ [][GateNext]_vars
SpecIdentity == Init /\ [][IdentityNext]_vars
SpecHandlers == Init /\ [][HandlerNext]_vars
SpecIdentityOrder == Init /\ [][IdentityOrderNext]_vars

\* A session that always takes its next step: timers fire and every fetch
\* settles.
SpecPollLive == Init /\ [][PollLiveNext]_vars /\ WF_vars(PollLiveNext)

-----------------------------------------------------------------------------
(***************************************************************************)
(* Properties of the registry.                                             *)
(***************************************************************************)

\* Every value directly under a pseudonymizable key is a string.
RECURSIVE AllTransitionValuesAreStrings(_)
AllTransitionValuesAreStrings(tree) ==
    IF IsArray(tree)
    THEN \A i \in DOMAIN tree.a : AllTransitionValuesAreStrings(tree.a[i])
    ELSE IF IsPlainObject(tree)
    THEN \A i \in DOMAIN tree.e :
            IF tree.e[i].k \in TRANSITION_FIELDS
            THEN IsString(tree.e[i].v)
            ELSE AllTransitionValuesAreStrings(tree.e[i].v)
    ELSE TRUE

\* C1: under one field name, two distinct raw strings that were pseudonymized
\* never carry the same integer.
C1_AssignInjective ==
    \A f \in TRANSITION_FIELDS :
        \A a \in DOMAIN uuidToIdMaps[f], b \in DOMAIN uuidToIdMaps[f] :
            a # b => uuidToIdMaps[f][a] # uuidToIdMaps[f][b]

\* C1 witness: a normalize call has just left two raw strings under one field.
C1_Witness ==
    /\ regOp.op = "normalize"
    /\ \E f \in TRANSITION_FIELDS : Cardinality(DOMAIN uuidToIdMaps[f]) = 2

\* C2: a raw string that already has an integer under a field keeps it: a
\* later normalize returns that integer in its place, the forward entry is
\* unchanged, and a call that meets only known strings under a field leaves
\* the field's counter where it was.
C2_AssignIdempotent ==
    [][regOp'.op = "normalize" =>
        /\ \A p \in Assigned(regOp'.inp, regOp'.out) :
              MapHas(uuidToIdMaps[p[1]], p[2]) =>
                  p[3] = Num(uuidToIdMaps[p[1]][p[2]])
        /\ \A f \in TRANSITION_FIELDS :
              /\ \A raw \in DOMAIN uuidToIdMaps[f] :
                    /\ MapHas(uuidToIdMaps'[f], raw)
                    /\ uuidToIdMaps'[f][raw] = uuidToIdMaps[f][raw]
              /\ (\A p \in Assigned(regOp'.inp, regOp'.out) :
                    p[1] = f => MapHas(uuidToIdMaps[f], p[2]))
                 => counters'[f] = counters[f]
    ]_vars

\* C2 witness: the last normalize returned, for a string under a field whose
\* table holds two strings, the first integer of that field: a repeat after
\* another value was assigned in between.
C2_Witness ==
    /\ regOp.op = "normalize"
    /\ \E p \in Assigned(regOp.inp, regOp.out) :
          /\ p[3] = Num(1)
          /\ counters[p[1]] = 3
          /\ Cardinality(Assigned(regOp.inp, regOp.out)) = 1

\* C3: the forward and the reverse table of every field are inverses of each
\* other, and getOriginalUuid gives back the raw string of every assigned
\* integer.
C3_TablesInverse ==
    \A f \in TRANSITION_FIELDS :
        /\ \A raw \in DOMAIN uuidToIdMaps[f] :
              /\ MapHas(idToUuidMaps[f], uuidToIdMaps[f][raw])
              /\ idToUuidMaps[f][uuidToIdMaps[f][raw]] = raw
              /\ getOriginalUuid(CurrentRegistry, f, uuidToIdMaps[f][raw]) = Str(raw)
        /\ \A n \in DOMAIN idToUuidMaps[f] :
              /\ MapHas(uuidToIdMaps[f], idToUuidMaps[f][n])
              /\ uuidToIdMaps[f][idToUuidMaps[f][n]] = n

\* C3 witness: getOriginalUuid has just resolved the second integer of a field.
C3_Witness ==
    /\ regOp.op = "getOriginalUuid"
    /\ regOp.inp = Num(2)
    /\ IsString(regOp.out)

\* C4: denormalizeIntelxId of normalizeIntelxId of a tree whose values under
\* pseudonymizable keys are all strings is that tree.
C4_RoundTrip ==
    (regOp.op = "roundtrip" /\ AllTransitionValuesAreStrings(regOp.inp))
        => regOp.out = regOp.inp

\* C4 witness: a round trip of a tree that holds two different raw strings
\* under pseudonymizable keys.
C4_Witness ==
    /\ regOp.op = "roundtrip"
    /\ AllTransitionValuesAreStrings(regOp.inp)
    /\ regOp.inp = Arr(<<Obj(<<Entry("storage_id", Str("uuid-a"))>>),
                         Obj(<<Entry("storage_id", Str("uuid-b"))>>)>>)

\* What normalizeIntelxId must return for `inp` with the forward table it
\* left: the same shape and keys; an integer of the key's table for a string
\* under a pseudonymizable key; every other scalar as it is, under whatever
\* key; every other array or object walked the same way.
RECURSIVE Framed(_, _)
Framed(inp, out) ==
    IF IsArray(inp)
    THEN /\ IsArray(out)
         /\ Len(out.a) = Len(inp.a)
         /\ \A i \in DOMAIN inp.a : Framed(inp.a[i], out.a[i])
    ELSE IF IsPlainObject(inp)
    THEN /\ IsPlainObject(out)
         /\ Len(out.e) = Len(inp.e)
         /\ \A i \in DOMAIN inp.e :
               /\ out.e[i].k = inp.e[i].k
               /\ IF inp.e[i].k \in TRANSITION_FIELDS /\ IsString(inp.e[i].v)
                  THEN /\ MapHas(uuidToIdMaps[inp.e[i].k], inp.e[i].v.s)
                       /\ out.e[i].v = Num(uuidToIdMaps[inp.e[i].k][inp.e[i].v.s])
                  ELSE Framed(inp.e[i].v, out.e[i].v)
    ELSE out = inp

\* C22: normalizeIntelxId leaves the tree it was given as it was; what it
\* returns has the input's shape and keys, with every value under a key
\* outside TRANSITION_FIELDS kept (walked the same way when it is an array or
\* an object, the very string when it is a string, identifier or not), and
\* every value under a pseudonymizable key that is not a string kept too.
C22_NormalizeFrame ==
    regOp.op = "normalize" =>
        /\ regOp.src = regOp.inp
        /\ Framed(regOp.inp, regOp.out)
        /\ IsPlainObject(regOp.inp) =>
              \A i \in DOMAIN regOp.inp.e :
                  LET key == regOp.inp.e[i].k
                      value == regOp.inp.e[i].v
                  IN  /\ (key \notin TRANSITION_FIELDS /\ ~IsArray(value) /\ ~IsPlainObject(value))
                            => regOp.out.e[i].v = value
                      /\ (key \in TRANSITION_FIELDS /\ IsNumber(value))
                            => regOp.out.e[i].v = value
                      /\ (key \in TRANSITION_FIELDS /\ ~IsString(value))
                            => regOp.out.e[i].v.t = value.t

\* C22 witness: with "uuid-a" registered under system_id as 2, a tree that
\* holds "uuid-a" under the key systemid and the number 1 under system_id
\* came back as it went in.
C22_Witness ==
    /\ regOp.op = "normalize"
    /\ regOp.inp = Obj(<<Entry("systemid", Str("uuid-a")), Entry("system_id", Num(1))>>)
    /\ regOp.out = regOp.inp
    /\ getNormalizedId(CurrentRegistry, "system_id", "uuid-a") = Num(2)

\* The value holds `undefined` somewhere.
RECURSIVE RawUndefined(_)
RawUndefined(tree) ==
    IF IsArray(tree)
    THEN \E i \in DOMAIN tree.a : RawUndefined(tree.a[i])
    ELSE IF IsPlainObject(tree)
    THEN \E i \in DOMAIN tree.e : RawUndefined(tree.e[i].v)
    ELSE tree = Undefined

\* Every number of `inp` under a pseudonymizable key whose reverse table has
\* no entry for it is in `out` at the same place, as it was.
RECURSIVE KeepsUnmapped(_, _)
KeepsUnmapped(inp, out) ==
    IF IsArray(inp)
    THEN /\ IsArray(out)
         /\ Len(out.a) = Len(inp.a)
         /\ \A i \in DOMAIN inp.a : KeepsUnmapped(inp.a[i], out.a[i])
    ELSE IF IsPlainObject(inp)
    THEN /\ IsPlainObject(out)
         /\ Len(out.e) = Len(inp.e)
         /\ \A i \in DOMAIN inp.e :
               /\ out.e[i].k = inp.e[i].k
               /\ IF inp.e[i].k \in TRANSITION_FIELDS /\ IsNumber(inp.e[i].v)
                  THEN ~MapHas(idToUuidMaps[inp.e[i].k], inp.e[i].v.n)
                          => out.e[i].v = inp.e[i].v
                  ELSE KeepsUnmapped(inp.e[i].v, out.e[i].v)
    ELSE TRUE

\* C23: denormalizeIntelxId returns a tree, of the input's shape, in which
\* every integer under a pseudonymizable key that has no reverse entry in
\* that key's table is unchanged; nothing is thrown and no value is lost.
C23_DenormalizeFailSoft ==
    regOp.op = "denormalize" =>
        /\ KeepsUnmapped(regOp.inp, regOp.out)
        /\ ~RawUndefined(regOp.out)

\* C23 witness: the integer 1 is assigned under storage_id and not under
\* system_id; a tree with 1 under both keys came back with the raw string
\* under storage_id and the 1 still under system_id.
C23_Witness ==
    /\ regOp.op = "denormalize"
    /\ counters["system_id"] = 1
    /\ regOp.inp = Obj(<<Entry("system_id", Num(1)), Entry("storage_id", Num(1))>>)
    /\ regOp.out = Obj(<<Entry("system_id", Num(1)), Entry("storage_id", Str("uuid-a"))>>)

\* The integers in use under a field: those the forward table maps to.
IdsInUse(f) == {uuidToIdMaps[f][raw] : raw \in DOMAIN uuidToIdMaps[f]}

\* C25: under every field the integers in use are 1..n, n the number of raw
\* values normalized under it so far, and the counter is n + 1; no step
\* removes or changes an entry of the forward or of the reverse table.
C25_DenseAndPermanent ==
    /\ [](\A f \in TRANSITION_FIELDS :
            LET n == Cardinality(DOMAIN uuidToIdMaps[f])
            IN  /\ IdsInUse(f) = 1..n
                /\ DOMAIN idToUuidMaps[f] = 1..n
                /\ counters[f] = n + 1)
    /\ [][\A f \in TRANSITION_FIELDS :
            /\ \A raw \in DOMAIN uuidToIdMaps[f] :
                  /\ MapHas(uuidToIdMaps'[f], raw)
                  /\ uuidToIdMaps'[f][raw] = uuidToIdMaps[f][raw]
            /\ \A id \in DOMAIN idToUuidMaps[f] :
                  /\ MapHas(idToUuidMaps'[f], id)
                  /\ idToUuidMaps'[f][id] = idToUuidMaps[f][id]]_vars

\* C25 witness: after a normalize call, system_id has two raw values (1 and
\* 2 in use, counter 3) and storage_id has one (counter 2).
C25_Witness ==
    /\ regOp.op = "normalize"
    /\ IdsInUse("system_id") = {1, 2}
    /\ counters["system_id"] = 3
    /\ IdsInUse("storage_id") = {1}
    /\ counters["storage_id"] = 2

\* C26: a normalize call leaves alone the forward table, the reverse table
\* and the counter of every field it assigned nothing under; the tables of
\* two fields are free to give one integer to different raw values.
C26_NamespacesIndependent ==
    [][regOp'.op = "normalize" =>
        \A f \in TRANSITION_FIELDS :
            (\A p \in Assigned(regOp'.inp, regOp'.out) : p[1] # f) =>
                /\ uuidToIdMaps'[f] = uuidToIdMaps[f]
                /\ idToUuidMaps'[f] = idToUuidMaps[f]
                /\ counters'[f] = counters[f]
    ]_vars

\* C26 witness: a normalize call that assigned under storage_id only has left
\* 1 standing for "uuid-b" there, while 1 stands for "uuid-a" under system_id.
C26_Witness ==
    /\ regOp.op = "normalize"
    /\ {p[1] : p \in Assigned(regOp.inp, regOp.out)} = {"storage_id"}
    /\ getOriginalUuid(CurrentRegistry, "storage_id", 1) = Str("uuid-b")
    /\ getOriginalUuid(CurrentRegistry, "system_id", 1) = Str("uuid-a")
    /\ counters["storage_id"] = 2

\* C37: normalizeIntelxId applied to what normalizeIntelxId returned gives
\* back an equal tree, writes nothing into the tree it is given and leaves
\* every forward table, reverse table and counter as it was.
C37_NormalizeIdempotent ==
    /\ [](regOp.op = "renormalize" =>
            /\ regOp.out = regOp.inp
            /\ regOp.src = regOp.inp)
    /\ [][regOp'.op = "renormalize"
            => UNCHANGED <<uuidToIdMaps, idToUuidMaps, counters>>]_vars

\* C37 witness: the second pass ran over an object whose two identifiers the
\* first pass had replaced by 2 and 1, with two system ids assigned so far.
C37_Witness ==
    /\ regOp.op = "renormalize"
    /\ regOp.inp = Obj(<<Entry("system_id", Num(2)), Entry("storage_id", Num(1))>>)
    /\ counters["system_id"] = 3
    /\ counters["storage_id"] = 2

\* The calls that only read the registry.
Lookups == {"denormalize", "roundtrip", "getOriginalUuid", "getNormalizedId"}

\* C38: denormalizeIntelxId, getOriginalUuid and getNormalizedId leave every
\* forward table, reverse table and counter as they were, whether or not the
\* integer or raw value they look up is known.
C38_LookupsLeaveRegistry ==
    [][regOp'.op \in Lookups => UNCHANGED <<uuidToIdMaps, idToUuidMaps, counters>>]_vars

\* C38 witness: getNormalizedId was asked for a raw value that has no
\* identifier under system_id, in a registry that holds another one; the
\* answer is undefined and the raw value still has no identifier.
C38_Witness ==
    /\ regOp.op = "getNormalizedId"
    /\ regOp.field = "system_id"
    /\ regOp.inp = Str("uuid-b")
    /\ regOp.out = Undefined
    /\ MapHas(uuidToIdMaps["system_id"], "uuid-a")
    /\ ~MapHas(uuidToIdMaps["system_id"], "uuid-b")
    /\ counters["system_id"] = 2

\* The storage id of an IdentityRecord.
StorageIdOf(record) == Get(Get(record, "item"), "storageid").s

\* A newline and the line of every record of the list that has the storage
\* id, in input order.
RECURSIVE LinesOf(_, _)
LinesOf(records, id) ==
    IF records = <<>>
    THEN ""
    ELSE (IF StorageIdOf(Head(records)) = id
          THEN "\n" \o Get(Head(records), "linea").s
          ELSE "")
         \o LinesOf(Tail(records), id)

Rendered(trimmed) ==
    IF Len(trimmed) <= 128
    THEN trimmed
    ELSE SubSeq(trimmed, 1, 128) \o "...(More " \o ToString(Len(trimmed) - 128) \o " characters)"

\* C21: every line of the result of normalizeIdentityRecords is the merged
\* line trimmed when that has 128 characters or fewer, and otherwise its first
\* 128 characters followed by "...(More N characters)", N the number of
\* characters beyond 128: 12 for a trimmed line of 140.
C21_TruncatedAt128 ==
    regOp.op = "normalizeIdentityRecords" =>
        LET merged == mergedByStorageId(regOp.inp.a)
        IN  \A i \in DOMAIN merged :
                LET trimmed == Trim(Get(merged[i], "line").s)
                    line == Get(regOp.out.a[i], "line").s
                IN  /\ line = Rendered(trimmed)
                    /\ Len(trimmed) <= 128 => line = trimmed
                    /\ Len(trimmed) > 128 =>
                          /\ SubSeq(line, 1, 128) = SubSeq(trimmed, 1, 128)
                          /\ Len(line) > 128 + Len("...(More  characters)")
                    /\ Len(trimmed) = 140 =>
                          SubSeq(line, 129, Len(line)) = "...(More 12 characters)"

\* C21 witness: two lines of 64 and 75 characters under one storage id were
\* merged into 140 characters and cut, next to a record of the other storage
\* id whose 63 and 64 characters make 128 and are kept whole.
C21_Witness ==
    /\ regOp.op = "normalizeIdentityRecords"
    /\ Len(regOp.out.a) = 1
    /\ regOp.inp = Arr(<<IdentityRecord(Line64, "uuid-a"), IdentityRecord(Line75, "uuid-a")>>)
    /\ Get(regOp.out.a[1], "line") =
          Str(Line64 \o "\n" \o SubSeq(Line75, 1, 63) \o "...(More 12 characters)")

\* The storage ids of the records, each once, in the order of their first
\* appearance.
RECURSIVE FirstAppearances(_, _)
FirstAppearances(records, seen) ==
    IF records = <<>>
    THEN <<>>
    ELSE LET id == StorageIdOf(Head(records))
         IN  IF id \in seen
             THEN FirstAppearances(Tail(records), seen)
             ELSE <<id>> \o FirstAppearances(Tail(records), seen \cup {id})

\* The first record of the list with the storage id.
FirstOf(records, id) ==
    records[CHOOSE i \in DOMAIN records :
               /\ StorageIdOf(records[i]) = id
               /\ \A j \in DOMAIN records : StorageIdOf(records[j]) = id => i <= j]

\* C32: normalizeIdentityRecords returns one record per storage id of its
\* input, in the order in which the storage ids first appear in the input,
\* each with the system id, bucket, filename and date of the first input
\* record that has its storage id.
C32_OnePerStorageIdInInputOrder ==
    regOp.op = "normalizeIdentityRecords" =>
        LET records == regOp.inp.a
            ids == FirstAppearances(records, {})
        IN  /\ Len(regOp.out.a) = Len(ids)
            /\ \A i \in DOMAIN ids :
                  LET first == Get(FirstOf(records, ids[i]), "item")
                      out == regOp.out.a[i]
                  IN  /\ Get(out, "storage_id") =
                            getNormalizedId(CurrentRegistry, "storage_id", ids[i])
                      /\ Get(out, "system_id") =
                            getNormalizedId(CurrentRegistry, "system_id", Get(first, "systemid").s)
                      /\ Get(out, "bucket") = Get(first, "bucket")
                      /\ Get(out, "filename") = Get(first, "name")
                      /\ Get(out, "date") = Get(first, "date")

-----------------------------------------------------------------------------
(***************************************************************************)
(* Properties of the polling loops.                                        *)
(*                                                                         *)
(* The three poll states are read off the upstream status code, the same   *)
(* way for every family: no-more-results is COMPLETE, not-found is         *)
(* EXPIRED, anything else (results, nothing yet) is CONTINUE.              *)
(***************************************************************************)
PollState(status) ==
    IF status = SEARCH_STATUS.NO_MORE_RESULTS THEN "COMPLETE"
    ELSE IF status = SEARCH_STATUS.NOT_FOUND THEN "EXPIRED"
    ELSE "CONTINUE"

Terminal(status) == PollState(status) \in {"COMPLETE", "EXPIRED"}

\* A poll round has been received and its loop body has run; `results` is
\* that round, `maxresults` the budget it left.
AfterRound == pc \in {"delay", "terminate", "done"} /\ rounds # <<>>

\* The loop was left on the last round (break), with or without a terminate
\* call still to make.
Finished == pc \in {"terminate", "done"}

TerminateCalls == Cardinality({i \in DOMAIN calls : calls[i].op = "terminate"})

\* C5: (as claimed) a session that finishes on a COMPLETE or EXPIRED round
\* makes no terminate call, also when that round's records exhaust the budget.
C5_NoTerminateOnTerminalRound ==
    (pc = "done" /\ rounds # <<>> /\ Terminal(results.status)) => TerminateCalls = 0

\* C5: (amended) a session that finishes on a no-more-results or not-found
\* round makes no terminate call when the budget is still above 0 after that
\* round, and makes one when that round's records brought it to 0 or below.
C5_TerminateOnlyOnExhaustion ==
    (pc = "done" /\ rounds # <<>> /\ Terminal(results.status)) =>
        TerminateCalls = (IF maxresults > 0 THEN 0 ELSE 1)

\* C5 witness: a session of two rounds or more returned on a terminal round
\* with budget left and records accumulated.
C5_Witness ==
    /\ pc = "done"
    /\ Len(rounds) >= 2
    /\ Terminal(results.status)
    /\ maxresults > 0
    /\ Accumulated > 0
    /\ TerminateCalls = 0

\* C6: the result of a session that finishes on a COMPLETE round holds the
\* records of every round, the last one included, and a round that is
\* CONTINUE with no records leaves the session running.
C6_CompleteKeepsEveryRound ==
    /\ (pc = "done" /\ rounds # <<>> /\ PollState(results.status) = "COMPLETE")
          => Accumulated = SumN(rounds)
    /\ (AfterRound /\ PollState(results.status) = "CONTINUE" /\ results.n = 0)
          => pc = "delay"

\* C7: a CONTINUE round that brings the budget to 0 or below ends the loop on
\* that round, and the session makes exactly one terminate call: none before
\* the call is due, one when it returns.
C7_TerminateOnExhaustion ==
    (AfterRound /\ PollState(results.status) = "CONTINUE" /\ maxresults <= 0) =>
        /\ Finished
        /\ pc = "terminate" => TerminateCalls = 0
        /\ pc = "done" => TerminateCalls = 1

\* C7 witness: a session returned after a CONTINUE round exhausted its budget
\* in its second round or later.
C7_Witness ==
    /\ pc = "done"
    /\ Len(rounds) >= 2
    /\ PollState(results.status) = "CONTINUE"
    /\ maxresults <= 0
    /\ TerminateCalls = 1

C9_FinishedIff ==
    AfterRound => (Finished <=> (Terminal(results.status) \/ maxresults <= 0))

\* What the caller of the session gets: the accumulated result when the method
\* returns, an error and no records when it throws.
SessionOutcome ==
    IF pc = "done" THEN [kind |-> "result", records |-> allRecords]
    ELSE IF pc = "failed" THEN [kind |-> "error", records |-> <<>>]
    ELSE [kind |-> "running", records |-> <<>>]

PollCalls == Cardinality({i \in DOMAIN calls : calls[i].op = "poll"})

\* C13: a poll call answered by a non-success response ends the session with
\* an error on that round: the failed poll is the session's last upstream
\* call (no retry, no terminate) and the caller gets no records.
C13_PollFailureFatal ==
    (rounds # <<>> /\ ~rounds[Len(rounds)].ok) =>
        /\ pc = "failed"
        /\ error = "API error"
        /\ calls[Len(calls)].op = "poll"
        /\ TerminateCalls = 0
        /\ SessionOutcome = [kind |-> "error", records |-> <<>>]

\* C13 witness: a session that had accumulated records failed on the poll
\* call of its second round or a later one.
C13_Witness ==
    /\ pc = "failed"
    /\ Len(rounds) >= 2
    /\ ~rounds[Len(rounds)].ok
    /\ Accumulated > 0

\* C14: a terminate call that fails, by a response that is not ok or by a
\* request that does not complete, leaves the session returning its
\* accumulated records as a normal result.
C14_TerminateFailureSwallowed ==
    terminated \in {"not ok", "rejected"} =>
        SessionOutcome = [kind |-> "result", records |-> allRecords]

\* C15: a submit response with status 1 fails the search with the
\* invalid-search-term error, and no poll call and no terminate call is made.
C15_InvalidTermOnStatusOne ==
    (submitted.ok /\ submitted.status = 1) =>
        /\ pc = "failed"
        /\ error = "Invalid search term"
        /\ PollCalls = 0
        /\ TerminateCalls = 0

\* C16: in every family, a submit response whose job handle has length 3 or
\* less fails the search with the invalid-handle error before any poll call.
C16_InvalidHandleOnShortId ==
    (submitted.ok /\ submitted.status = 0 /\ submitted.idLength <= 3) =>
        /\ pc = "failed"
        /\ error = "Invalid search ID"
        /\ PollCalls = 0

C27_GateBeforeEveryCall ==
    \A i \in DOMAIN calls :
        calls[i].op \in UpstreamOps =>
            /\ i > 1
            /\ calls[i - 1].op = "rateLimit"
            /\ calls[i - 1].client = calls[i].client
            /\ calls[i].client = ClientOf(family)

\* C27 witness: an identity search has made its submit, two poll calls and
\* its terminate call, four upstream calls behind four gate passes.
C27_Witness ==
    /\ family = "identity"
    /\ pc = "done"
    /\ PollCalls = 2
    /\ TerminateCalls = 1
    /\ Cardinality({i \in DOMAIN calls : calls[i].op = "rateLimit"}) = 4

\* C28: every poll call of a session, the first included, comes after one
\* inter-round delay (the delay, the gate, the call; no second delay before
\* them), and asks for as many records as the budget is at that moment.
C28_DelayAndBudgetOnEveryPoll ==
    /\ [](\A i \in DOMAIN calls :
            calls[i].op = "poll" =>
                /\ i > 3
                /\ calls[i - 2].op = "delay"
                /\ calls[i - 3].op # "delay")
    /\ [][(calls' # calls /\ calls'[Len(calls')].op = "poll")
            => calls'[Len(calls')].arg = maxresults]_vars

\* C28 witness: a phonebook session made its third poll call with a budget
\* that two rounds had brought down from 3 to 1.
C28_Witness ==
    /\ family = "phonebook"
    /\ initialBudget = 3
    /\ Len(rounds) = 3
    /\ calls[Len(calls)] = [op |-> "poll", arg |-> 1, client |-> "IntelXClient"]

\* C29: a search whose submit call is answered by a response that is not ok
\* fails with an error at once: the submit is its last upstream call, no
\* poll call and no terminate call is made, and the caller gets no records.
C29_SubmitFailureFatal ==
    (family \in Families /\ ~submitted.ok) =>
        /\ pc = "failed"
        /\ error = "API error"
        /\ calls[Len(calls)].op = "submit"
        /\ PollCalls = 0
        /\ TerminateCalls = 0
        /\ SessionOutcome = [kind |-> "error", records |-> <<>>]

\* C29 witness: an account export failed on its submit call.
C29_Witness ==
    /\ family = "export"
    /\ ~submitted.ok
    /\ pc = "failed"
    /\ calls = Upstream("IdentityClient", "submit", 0)

\* The loop of a family run on a script of poll outcomes from round `round`
\* on: the round it finishes on (0 when the script ends first), the number
\* of records it has accumulated and whether it makes the terminate call.
RECURSIVE RunLoop(_, _, _, _, _)
RunLoop(fam, budget, acc, round, script) ==
    IF round > Len(script)
    THEN [finishedOn |-> 0, accumulated |-> SumN(acc), terminate |-> FALSE]
    ELSE LET r == RoundOf(fam, budget, acc, round, script[round])
         IN  IF r.next = "delay"
             THEN RunLoop(fam, r.maxresults, r.allRecords, round + 1, script)
             ELSE [finishedOn |-> round,
                   accumulated |-> SumN(r.allRecords),
                   terminate |-> r.next = "terminate"]

\* Every poll outcome of the script is a success response with a record (or
\* selector) list, which every family's loop can take.
WellFormed(script) == \A i \in DOMAIN script : script[i].ok /\ script[i].has

\* C30: the four loops, started with one budget on one script of poll
\* outcomes, finish on the same round with the same number of records and
\* the same decision about the terminate call: whatever a session did, each
\* of the four loops does on its budget and its rounds.
C30_LoopsEquivalent ==
    (pc = "done" /\ family \in Families /\ WellFormed(rounds)) =>
        \A fam \in Families :
            RunLoop(fam, initialBudget, <<>>, 1, rounds) =
                [finishedOn |-> Len(rounds),
                 accumulated |-> Accumulated,
                 terminate |-> TerminateCalls = 1]

\* C31: after every round of a phonebook session, and when it returns, the
\* result holds one entry per poll round made, in round order, each with the
\* selectors of its round (none included), and the budget is the initial
\* budget less the selectors of all the rounds.
C31_PhonebookOneEntryPerRound ==
    (family = "phonebook" /\ pc \in {"delay", "poll", "terminate", "done"}) =>
        /\ Len(allRecords) = Len(rounds)
        /\ \A i \in DOMAIN allRecords :
              /\ allRecords[i].round = i
              /\ allRecords[i].n = rounds[i].n
        /\ maxresults = initialBudget - SumN(rounds)

\* C31 witness: a phonebook session returned three entries, the second one
\* of a round without selectors.
C31_Witness ==
    /\ family = "phonebook"
    /\ pc = "done"
    /\ Len(allRecords) = 3
    /\ allRecords[2].n = 0
    /\ allRecords[1].n > 0
    /\ maxresults = initialBudget - allRecords[1].n - allRecords[3].n

\* C33: a session makes at most one terminate call; once it has left its
\* loop the only call it can still make is that terminate call, and once it
\* has made it, or has returned or failed, it makes no call at all.
C33_FinishedIsTerminal ==
    /\ [](TerminateCalls <= 1)
    /\ [][(pc \in {"done", "failed"} \/ TerminateCalls = 1) => calls' = calls]_vars
    /\ [][(pc = "terminate" /\ calls' # calls)
            => /\ Len(calls') = Len(calls) + 2
               /\ calls'[Len(calls')].op = "terminate"]_vars

\* C33 witness: an identity search that met status 3 on its second round made
\* its one terminate call with budget left and returned.
C33_Witness ==
    /\ family = "identity"
    /\ pc = "done"
    /\ Len(rounds) = 2
    /\ results.status = 3
    /\ maxresults > 0
    /\ TerminateCalls = 1
    /\ calls[Len(calls)].op = "terminate"

\* C35: a session that starts its loop with a budget of at least 1 issues
\* every poll call with a wanted count of at least 1: a budget of 0 or less
\* is never sent upstream.
C35_PollsWantAtLeastOne ==
    initialBudget >= 1 =>
        \A i \in DOMAIN calls : calls[i].op = "poll" => calls[i].arg >= 1

\* C35 witness: an export session whose budget of 2 was brought down to 1 by
\* the first round made its second poll call, asking for 1.
C35_Witness ==
    /\ family = "export"
    /\ initialBudget = 2
    /\ Len(rounds) = 2
    /\ rounds[1].n = 1
    /\ calls[Len(calls)] = [op |-> "poll", arg |-> 1, client |-> "IdentityClient"]

\* The upstream has answered a poll of the session with no-more-results or
\* not-found.
TerminalSeen == \E i \in DOMAIN rounds : rounds[i].ok /\ Terminal(rounds[i].status)

\* C34: a session whose poll was answered with a terminal status eventually
\* returns a result, unless an upstream call fails, which ends it with an
\* error: it does not go on polling for ever.
C34_ReturnsAfterTerminalStatus ==
    TerminalSeen ~> (pc = "done" \/ pc = "failed")

-----------------------------------------------------------------------------
(***************************************************************************)
(* Properties of the rate gate.                                            *)
(***************************************************************************)

\* C10: any two passes through the gate of one client are at least the
\* minimum interval apart.
C10_PassesSpaced ==
    \A i \in DOMAIN passes, j \in DOMAIN passes :
        i < j => passes[j][2] - passes[i][2] >= API_RATE_LIMIT_MS

\* Caller c is the only user of the client: every pass so far is its own and
\* no other caller is inside rateLimit().
SoleCaller(c) ==
    /\ \A i \in DOMAIN passes : passes[i][1] = c
    /\ \A d \in Callers \ {c} : gate[d].pc = "idle"

\* C11: while one session is the only user of a client, any two consecutive
\* passes of it are at least the minimum interval apart, and lastRequestTime
\* is the time of its latest pass.
C11_SoleCallerSpaced ==
    \A c \in Callers :
        SoleCaller(c) =>
            /\ \A i \in DOMAIN passes :
                  i > 1 => passes[i][2] - passes[i - 1][2] >= API_RATE_LIMIT_MS
            /\ passes # <<>> => lastRequestTime = passes[Len(passes)][2]

\* C11 witness: one caller alone has gone through the gate three times, the
\* second time after waiting out the rest of the interval.
C11_Witness ==
    /\ SoleCaller(1)
    /\ Len(passes) = 3
    /\ passes[2][2] - passes[1][2] = API_RATE_LIMIT_MS
    /\ gate[1].pc = "idle"

-----------------------------------------------------------------------------
(***************************************************************************)
(* Properties of the handlers.                                             *)
(***************************************************************************)

\* C12: whatever the interleaving of the requests, the assignments their
\* normalize calls made or reused agree with each other and with the
\* registry: under one field a raw string has one integer and an integer
\* has one raw string.
C12_ConcurrentAssignConsistent ==
    \A r1 \in Requests, r2 \in Requests :
        \A p \in requests[r1].assigned, q \in requests[r2].assigned :
            /\ p[1] = q[1] => (p[2] = q[2] <=> p[3] = q[3])
            /\ MapHas(uuidToIdMaps[p[1]], p[2])
            /\ p[3] = Num(uuidToIdMaps[p[1]][p[2]])

\* C12 witness: two search requests have returned; the one that normalized
\* second was given, for the raw strings they share, the integers of the
\* first, and further integers for the others.
C12_Witness ==
    /\ requests[1].pc = "returned"
    /\ requests[2].pc = "returned"
    /\ requests[1].tool = "intelx_intelligent_search"
    /\ requests[2].tool = "intelx_intelligent_search"
    /\ requests[2].assigned = {<<"system_id", "uuid-b", Num(1)>>,
                               <<"storage_id", "uuid-a", Num(1)>>}
    /\ requests[1].assigned = {<<"system_id", "uuid-a", Num(2)>>,
                               <<"storage_id", "uuid-b", Num(2)>>,
                               <<"system_id", "uuid-b", Num(1)>>,
                               <<"storage_id", "uuid-a", Num(1)>>}

\* A request of a handler that takes an identifier, past its schema.
Resolving(r) ==
    /\ requests[r].tool \in ResolvingTools \cup ResolvingResources
    /\ requests[r].resolved # Null

\* C17: a handler given an integer that the registry has no raw value for, in
\* the field the handler resolves it in, fails with the unknown-identifier
\* error and makes no upstream call.
C17_UnknownIdentifierFails ==
    \A r \in Requests :
        (Resolving(r) /\ requests[r].resolved = Undefined) =>
            /\ requests[r].pc = "failed"
            /\ requests[r].error \in {"Invalid storage_id", "Invalid system_id"}
            /\ ~requests[r].upstream

\* C18: an integer that normalize assigned under storage_id (system_id),
\* given to a handler as its storage_id (system_id), resolves to the raw
\* identifier it stands for, and that raw identifier is what goes upstream.
C18_ResolvesInAssignedNamespace ==
    \A r \in Requests :
        (Resolving(r) /\ IsString(requests[r].expected)) =>
            /\ requests[r].resolved = requests[r].expected
            /\ requests[r].sent = requests[r].expected

\* A raw upstream identifier occurs somewhere in the value.
RECURSIVE RawOccurs(_)
RawOccurs(tree) ==
    IF IsArray(tree)
    THEN \E i \in DOMAIN tree.a : RawOccurs(tree.a[i])
    ELSE IF IsPlainObject(tree)
    THEN \E i \in DOMAIN tree.e : RawOccurs(tree.e[i].v)
    ELSE IsString(tree) /\ tree.s \in RawStrings

\* C19: no value a handler returns holds a raw system or storage identifier,
\* under any key.
C19_NoRawIdentifierReturned ==
    \A r \in Requests :
        requests[r].pc = "returned" => ~RawOccurs(requests[r].value)

\* The steps of request r from the call of its handler to the failure of its
\* client method.
UpToFailure(r) ==
    /\ requests'[r] # requests[r]
    /\ requests'[r].tool \in SearchTools
    /\ requests'[r].pc \in {"awaiting", "failed"}

\* C36: a search handler whose client method ends with an error has assigned
\* nothing: none of its steps, from its call to the error, changes a forward
\* table, a reverse table or a counter, and it has run no callback of its
\* chain.  Only requests whose client method resolved assign identifiers.
C36_FailedSearchLeavesRegistry ==
    /\ [](\A r \in Requests :
            (requests[r].tool \in SearchTools /\ requests[r].pc = "failed") =>
                /\ requests[r].assigned = {}
                /\ requests[r].stage = 0)
    /\ [][\A r \in Requests :
            UpToFailure(r) => UNCHANGED <<uuidToIdMaps, idToUuidMaps, counters>>]_vars

\* C36 witness: an identity search failed after another search had returned
\* and assigned identifiers; the registry holds what the successful request
\* assigned and nothing else.
C36_Witness ==
    /\ requests[1].tool = "intelx_intelligent_search"
    /\ requests[1].pc = "returned"
    /\ requests[1].assigned = {<<"system_id", "uuid-a", Num(1)>>,
                               <<"storage_id", "uuid-b", Num(1)>>}
    /\ requests[2].tool = "intelx_identity_search"
    /\ requests[2].pc = "failed"
    /\ requests[2].error = "API error"
    /\ counters["system_id"] = 2
    /\ counters["storage_id"] = 2

=============================================================================
